---- MODULE Spec2Model ----
(***************************************************************************)
(* Forest task scheduling of beiwe-backend: the task rows (ForestTask /    *)
(* ForestTracker), the periodic dispatcher create_forest_celery_tasks, the *)
(* celery worker celery_run_forest, and the admin pages that create and    *)
(* cancel tasks.                                                           *)
(*                                                                         *)
(* Database semantics assumed (Django ORM on a READ COMMITTED database):   *)
(*  - a queryset is lazy; select_for_update() locks exactly the rows a     *)
(*    query returns when it is evaluated, until the transaction ends;      *)
(*  - a statement that needs a row locked by another transaction waits and *)
(*    is evaluated on the committed rows once the lock is free;            *)
(*  - writes made inside transaction.atomic() become visible at commit.    *)
(***************************************************************************)
EXTENDS Integers, Sequences, FiniteSets, TLC

\* ------------------------------------------------------------------ bounds
MaxTasks == 3       \* rows the task table can hold (ids 1..MaxTasks)
MaxCreated == 2     \* rows the create requests of one run add up to
MaxDate == 3        \* data dates are 1..MaxDate
MaxTime == 2        \* the clock reads 0..MaxTime
MaxDispatch == 1    \* undelivered dispatches of one task id in the broker
MaxGridRows == 2    \* rows of the table a progress page is rendered from
MaxGridDate == 7    \* the progress chart has the dates 1..MaxGridDate
TicksPerSecond == 2 \* resolution of the wall clock of the expiry
MaxClockSeconds == 61   \* the wall clock runs over 0..MaxClockSeconds s

\* ----------------------------------------------------------- fixed inputs
Workers == {"w1", "w2"}
Participants == {"p1", "p2"}
Trees == {"jasmine", "willow"}
Researchers == {"admin"}
\* file_size of the ChunkRegistry rows of each participant (p2 has none)
ChunkSizes(p) == IF p = "p1" THEN <<2, 3>> ELSE <<>>

NULL == -1          \* None in a nullable numeric column
NoTask == 0         \* no row
TaskIds == 1..MaxTasks
PhantomId == MaxTasks + 1   \* an id whose row does not exist
Dates == 1..MaxDate

VARIABLES
    tasks,       \* the ForestTask table: sequence of rows, id = index
    queue,       \* broker: number of undelivered dispatches per task id
    pc,          \* per worker: position in celery_run_forest
    cand,        \* per worker: forest_task_id it was delivered
    trk,         \* per worker: id of the row its `tracker` object was
                 \*   selected from (NoTask before the selection)
    mem,         \* per worker: the in-memory `tracker` object
    locks,       \* per worker: rows locked by its open transaction
    uncaught,    \* names of the exceptions that escaped celery_run_forest
    workspace,   \* per task id: its local scratch directory holds files
    now,         \* the clock
    saveKw,      \* how ForestTask.save treats the keyword update_field
    page,        \* the response of analysis_progress, once it was requested
    sent         \* the dispatches published at the present instant, with
                 \*   their options (kept in the specification of the expiry)

vars == <<tasks, queue, pc, cand, trk, mem, locks, uncaught,
          workspace, now, saveKw, page, sent>>

\* ------------------------------------------------------------------- rows
\* id of study.forest_metadata, the parameter set new tasks refer to
ForestMetadata == 1

NewRow(p, tr, ds, de, t) ==
    [participant |-> p, forest_tree |-> tr,
     data_date_start |-> ds, data_date_end |-> de,
     status |-> "queued", created_on |-> t,
     process_start_time |-> NULL, process_download_end_time |-> NULL,
     process_end_time |-> NULL, total_file_size |-> NULL,
     stacktrace |-> <<>>, forest_version |-> "",
     params_dict_cache |-> FALSE,
     all_bv_set |-> FALSE, all_memory_dict |-> FALSE,
     metadata_id |-> ForestMetadata]

BlankRow == NewRow("", "", 0, 0, NULL)

\* the opaque external id of row i (stable, distinct from the internal id)
ExternalId(i) == <<"ext", i>>

ExternalIds == {ExternalId(i) : i \in 1..PhantomId}

\* get_distribution("Exception").version
ForestVersion == "forest-version"

Ids == 1..Len(tasks)

\* mutant: the tree is not compared
SiblingsAnyTree(i) ==
    {j \in Ids : tasks[j].participant = tasks[i].participant}

\* the rows of one (participant, forest_tree) pair
Siblings(i) ==
    {j \in Ids : /\ tasks[j].participant = tasks[i].participant
                 /\ tasks[j].forest_tree = tasks[i].forest_tree}

\* mutant: the candidate itself is left out of the running check
RunningSiblingsOthers(i) ==
    {j \in Siblings(i) \ {i} : tasks[j].status = "running"}

RunningSiblings(i) == {j \in Siblings(i) : tasks[j].status = "running"}

\* mutant: failed rows are taken up again
QueuedOrErrorSiblings(i) ==
    {j \in Siblings(i) : tasks[j].status \in {"queued", "error"}}

QueuedSiblings(i) == {j \in Siblings(i) : tasks[j].status = "queued"}

\* mutant: ascending order, the oldest data first
FirstQueuedOldest(i) ==
    {j \in QueuedSiblings(i) :
        \A k \in QueuedSiblings(i) :
            tasks[j].data_date_start <= tasks[k].data_date_start}

\* .order_by("-data_date_start").first(): the rows that can come first
FirstQueued(i) ==
    {j \in QueuedSiblings(i) :
        \A k \in QueuedSiblings(i) :
            tasks[k].data_date_start <= tasks[j].data_date_start}

\* mutant: the selection takes no row lock
LockedByOtherNever(w, j) == FALSE

LockedByOther(w, j) == \E v \in Workers \ {w} : j \in locks[v]

RECURSIVE SumSeq(_)
SumSeq(s) == IF s = <<>> THEN 0 ELSE Head(s) + SumSeq(Tail(s))

\* chunks.aggregate(Sum('file_size')).get('file_size__sum')
FileSizeSum(p) == IF ChunkSizes(p) = <<>> THEN NULL ELSE SumSeq(ChunkSizes(p))

Traceback(what) == <<"Traceback", what>>

AuditNote(actor, date) == <<"Canceled by", actor, date>>

\* no progress page has been rendered
NoPage ==
    [rendered |-> FALSE, order |-> <<>>, chart |-> <<>>,
     metadata_conflict |-> FALSE]

\* ------------------------------------------------------------------- init
InitWith(table) ==
    /\ tasks = table
    /\ queue = [i \in 1..PhantomId |-> 0]
    /\ pc = [w \in Workers |-> "idle"]
    /\ cand = [w \in Workers |-> NoTask]
    /\ trk = [w \in Workers |-> NoTask]
    /\ mem = [w \in Workers |-> BlankRow]
    /\ locks = [w \in Workers |-> {}]
    /\ uncaught = {}
    /\ workspace = [i \in TaskIds |-> FALSE]
    /\ now = 0
    /\ saveKw \in {"rejected", "accepted"}
    /\ page = NoPage
    /\ sent = {}

\* no task has been created yet
Init == InitWith(<<>>)

\* three queued tasks of one participant and tree, created in the order
\* of data_date_start 1, 3, 2
InitNewest ==
    InitWith(<<NewRow("p1", "jasmine", 1, 1, 0), NewRow("p1", "jasmine", 3, 3, 0),
               NewRow("p1", "jasmine", 2, 2, 0)>>)

\* ------------------------------------------------- pages/forest_pages.py
\* the create requests tried: one participant and tree with two start
\* dates, and one participant without chunks with both trees
CreateForms ==
    {[users |-> {"p1"}, trees |-> {"jasmine"}, ds |-> d, de |-> MaxDate] :
        d \in {1, 2}}
    \cup {[users |-> {"p2"}, trees |-> Trees, ds |-> 1, de |-> 1]}

\* create_tasks (POST): one queued row per selected participant and tree
RECURSIVE AppendRows(_, _, _, _, _)
AppendRows(rows, pairs, ds, de, t) ==
    IF pairs = {} THEN rows
    ELSE LET pr == CHOOSE x \in pairs : TRUE
         IN AppendRows(Append(rows, NewRow(pr[1], pr[2], ds, de, t)),
                       pairs \ {pr}, ds, de, t)

CreateTasks(users, trees, ds, de) ==
    /\ users # {} /\ trees # {}
    /\ Len(tasks) + Cardinality(users \X trees) <= MaxCreated
    /\ tasks' = AppendRows(tasks, users \X trees, ds, de, now)
    /\ UNCHANGED <<queue, pc, cand, trk, mem, locks, uncaught,
                   workspace, now, saveKw, page, sent>>

\* mutant: the status filter is missing
CancelMatchesAnyStatus(eid) == {i \in Ids : ExternalId(i) = eid}

\* the rows the cancel UPDATE matches:
\* .filter(external_id=forest_task_id, status=QUEUED)
CancelMatches(eid) ==
    {i \in Ids : ExternalId(i) = eid /\ tasks[i].status = "queued"}

Cancelled(row, actor, date) ==
    [row EXCEPT !.status = "cancelled", !.stacktrace = AuditNote(actor, date)]

\* number_updated, line 164; the response flashes success iff it is > 0
NumberUpdated(eid) == Cardinality(CancelMatches(eid))

CancelReportsSuccess(eid) == NumberUpdated(eid) > 0

\* task_log (POST) by a site admin; the UPDATE waits for row locks
Cancel(eid, actor) ==
    /\ \A i \in CancelMatches(eid) : \A w \in Workers : i \notin locks[w]
    /\ tasks' = [i \in Ids |-> IF i \in CancelMatches(eid)
                               THEN Cancelled(tasks[i], actor, now)
                               ELSE tasks[i]]
    /\ UNCHANGED <<queue, pc, cand, trk, mem, locks, uncaught,
                   workspace, now, saveKw, page, sent>>


\* ------------------------------ analysis_progress, lines 32-88
\* the dates of the chart columns, start_date..end_date
GridDates == 1..MaxGridDate

\* daterange(a, b, inclusive=True)
DateRange(a, b) == a..b

\* the keys (participant, tree, date) one tracker writes
Keys(row) ==
    {<<row.participant, row.forest_tree, d>> :
        d \in DateRange(row.data_date_start, row.data_date_end)}

\* mutant: the rows come newest first
TrackerOrdersDescending ==
    {ord \in [1..Len(tasks) -> Ids] :
        /\ \A a, b \in 1..Len(tasks) : a # b => ord[a] # ord[b]
        /\ \A a, b \in 1..Len(tasks) :
              a < b => tasks[ord[a]].created_on >= tasks[ord[b]].created_on}

\* .order_by("created_on"): the orders the rows can be returned in (rows
\* with equal created_on come in any order)
TrackerOrders ==
    {ord \in [1..Len(tasks) -> Ids] :
        /\ \A a, b \in 1..Len(tasks) : a # b => ord[a] # ord[b]
        /\ \A a, b \in 1..Len(tasks) :
              a < b => tasks[ord[a]].created_on <= tasks[ord[b]].created_on}

EmptyDict == [k \in {} |-> NULL]

\* d[k] = v for every k of ks
Put(d, ks, v) ==
    [k \in DOMAIN d \cup ks |-> IF k \in ks THEN v ELSE d[k]]

\* mutant: the metadata of a run that did not succeed is kept as well
CellMetadataAnyStatus(row) == row.metadata_id

\* lines 55-58: what a tracker records as the metadata of its cells
CellMetadata(row) == IF row.status = "success" THEN row.metadata_id ELSE NULL

\* lines 50-58: the dicts after the first n trackers of ord
RECURSIVE BuildResults(_, _)
BuildResults(ord, n) ==
    IF n = 0
    THEN [results |-> EmptyDict, metadata |-> EmptyDict]
    ELSE LET b == BuildResults(ord, n - 1)
             row == tasks[ord[n]]
         IN [results |-> Put(b.results, Keys(row), row.status),
             metadata |-> Put(b.metadata, Keys(row), CellMetadata(row))]

\* lines 61-69: results is a defaultdict with default "--"
Chart(results) ==
    [c \in Participants \X Trees \X GridDates |->
        IF c \in DOMAIN results THEN results[c] ELSE "--"]

\* lines 71-77
MetadataConflict(metadata) ==
    \E tr \in {k[2] : k \in DOMAIN metadata} :
        Cardinality({metadata[k] :
                        k \in {x \in DOMAIN metadata :
                                  metadata[x] # NULL /\ x[2] = tr}}) > 1

\* analysis_progress (GET)
AnalysisProgress ==
    /\ ~page.rendered
    /\ \E ord \in TrackerOrders :
          LET b == BuildResults(ord, Len(ord))
          IN page' = [rendered |-> TRUE, order |-> ord,
                      chart |-> Chart(b.results),
                      metadata_conflict |-> MetadataConflict(b.metadata)]
    /\ UNCHANGED <<tasks, queue, pc, cand, trk, mem, locks, uncaught,
                   workspace, now, saveKw, sent>>

\* the rows a progress page is tried on: any participant and tree, the
\* five dates 2..6 or the dates 6..8 (the last one is past the chart's end),
\* a run that succeeded or one that did not, any metadata
GridRows ==
    {[NewRow(p, tr, r[1], r[2], 0) EXCEPT !.status = st, !.metadata_id = m] :
        p \in Participants, tr \in Trees, r \in {<<2, 6>>, <<6, 8>>},
        st \in {"success", "error"}, m \in {NULL, 1, 2}}

\* created_on of row i when row k + 1 was created gaps[k] after row k
RECURSIVE CreatedOn(_, _)
CreatedOn(gaps, i) == IF i = 1 THEN 0 ELSE CreatedOn(gaps, i - 1) + gaps[i - 1]

\* the table of the rows tb in the order of creation, a row being created
\* at the same instant as the one before it or later
GridTable(tb, gaps) ==
    [i \in DOMAIN tb |-> [tb[i] EXCEPT !.created_on = CreatedOn(gaps, i)]]

\* tables of up to MaxGridRows rows; the page treats the participants
\* alike and the trees alike, so the first row is of p1 and jasmine
InitGrid ==
    /\ \E n \in 0..MaxGridRows :
          \E tb \in [1..n -> GridRows], gaps \in [1..(n - 1) -> {0, 1}] :
             /\ n > 0 => tb[1].participant = "p1" /\ tb[1].forest_tree = "jasmine"
             /\ tasks = GridTable(tb, gaps)
    /\ queue = [i \in 1..PhantomId |-> 0]
    /\ pc = [w \in Workers |-> "idle"]
    /\ cand = [w \in Workers |-> NoTask]
    /\ trk = [w \in Workers |-> NoTask]
    /\ mem = [w \in Workers |-> BlankRow]
    /\ locks = [w \in Workers |-> {}]
    /\ uncaught = {}
    /\ workspace = [i \in TaskIds |-> FALSE]
    /\ now = 0
    /\ saveKw = "rejected"
    /\ page = NoPage
    /\ sent = {}

NextGrid == AnalysisProgress

\* the progress page rendered from a table of tasks
SpecGrid == InitGrid /\ [][NextGrid]_vars


\* ------------------------------------------------ services/celery_forest.py
\* enqueue_forest_task(args=[id]): one more dispatch for id in the broker
Enqueued(q, ids) == [i \in DOMAIN q |-> IF i \in ids THEN q[i] + 1 ELSE q[i]]

\* mutant: the scan also takes the tasks that are running
PendingOrRunningTrackers ==
    {i \in Ids : tasks[i].status \in {"queued", "running"}}

\* ForestTask.objects.filter(status=ForestTask.Status.queued)
PendingTrackers == {i \in Ids : tasks[i].status = "queued"}

\* create_forest_celery_tasks, run by cron
Scan ==
    /\ PendingTrackers # {}
    /\ \A i \in PendingTrackers : queue[i] < MaxDispatch
    /\ queue' = Enqueued(queue, PendingTrackers)
    /\ UNCHANGED <<tasks, pc, cand, trk, mem, locks, uncaught,
                   workspace, now, saveKw, page, sent>>

\* a dispatch that was not delivered before its `expires` instant is dropped
Expire(id) ==
    /\ queue[id] > 0
    /\ queue' = [queue EXCEPT ![id] = @ - 1]
    /\ UNCHANGED <<tasks, pc, cand, trk, mem, locks, uncaught,
                   workspace, now, saveKw, page, sent>>

\* ------------------------------------ enqueue_forest_task, lines 121-130
\* timedelta(minutes=5)
ExpiryMinutes == 5

\* .replace(second=30, microsecond=0)
ExpirySecond == 30

\* "max_retries": 0
MaxRetries == 0

SecondsPerMinute == 60

\* the wall clock counts ticks; one minute in ticks
MinuteTicks == SecondsPerMinute * TicksPerSecond

\* mutant: the five minutes are not added
ExpiresSameMinute(t) ==
    (t \div MinuteTicks) * MinuteTicks + ExpirySecond * TicksPerSecond

\* (utcnow() + timedelta(minutes=5)).replace(second=30, microsecond=0)
\* for utcnow() = t ticks
Expires(t) ==
    ((t + ExpiryMinutes * MinuteTicks) \div MinuteTicks) * MinuteTicks
    + ExpirySecond * TicksPerSecond

\* updated_kwargs: the defaults, then the caller's kwargs
UpdatedKwargs(t, kwargs) ==
    [expires |-> Expires(t), max_retries |-> MaxRetries, retry |-> FALSE,
     task_publish_retry |-> FALSE, task_track_started |-> TRUE,
     args |-> kwargs.args]

\* enqueue_forest_task(**kwargs) called from `site` at the present instant
EnqueueForestTask(kwargs, site) ==
    /\ \A m \in sent : m.site # site
    /\ sent' = sent \cup {[site |-> site, at |-> now,
                           options |-> UpdatedKwargs(now, kwargs)]}
    /\ UNCHANGED <<tasks, queue, pc, cand, trk, mem, locks, uncaught,
                   workspace, now, saveKw, page>>

\* line 41: the scan's call for a queued tracker
ScanEnqueue ==
    \E i \in PendingTrackers : EnqueueForestTask([args |-> <<i>>], "scan")

\* line 62: the handler's call for its candidate
ConflictEnqueue ==
    \E i \in Ids : EnqueueForestTask([args |-> <<i>>], "conflict")

\* the wall clock advances by one tick; the published dispatches move on
ClockTick ==
    /\ now < MaxClockSeconds * TicksPerSecond
    /\ now' = now + 1
    /\ sent' = {}
    /\ UNCHANGED <<tasks, queue, pc, cand, trk, mem, locks, uncaught,
                   workspace, saveKw, page>>

InitExpiry ==
    /\ tasks = <<NewRow("p1", "jasmine", 1, 1, 0)>>
    /\ queue = [i \in 1..PhantomId |-> 0]
    /\ pc = [w \in Workers |-> "idle"]
    /\ cand = [w \in Workers |-> NoTask]
    /\ trk = [w \in Workers |-> NoTask]
    /\ mem = [w \in Workers |-> BlankRow]
    /\ locks = [w \in Workers |-> {}]
    /\ uncaught = {}
    /\ workspace = [i \in TaskIds |-> FALSE]
    /\ now = 0
    /\ saveKw = "rejected"
    /\ page = NoPage
    /\ sent = {}

NextExpiry ==
    \/ ScanEnqueue
    \/ ConflictEnqueue
    \/ ClockTick

\* dispatches published at every instant of a minute
SpecExpiry == InitExpiry /\ [][NextExpiry]_vars


\* a call of celery_run_forest returns: the transaction, if open, ends and
\* the worker's objects are dropped
Return(w) ==
    /\ pc' = [pc EXCEPT ![w] = "idle"]
    /\ cand' = [cand EXCEPT ![w] = NoTask]
    /\ trk' = [trk EXCEPT ![w] = NoTask]
    /\ mem' = [mem EXCEPT ![w] = BlankRow]
    /\ locks' = [locks EXCEPT ![w] = {}]
    /\ UNCHANGED uncaught

\* a call of celery_run_forest ends by exception exc leaving the function
Raise(w, exc) ==
    /\ pc' = [pc EXCEPT ![w] = "idle"]
    /\ cand' = [cand EXCEPT ![w] = NoTask]
    /\ trk' = [trk EXCEPT ![w] = NoTask]
    /\ mem' = [mem EXCEPT ![w] = BlankRow]
    /\ locks' = [locks EXCEPT ![w] = {}]
    /\ uncaught' = uncaught \cup {exc}

\* the worker goes on to position p with tracker object m
Goto(w, p, m) ==
    /\ pc' = [pc EXCEPT ![w] = p]
    /\ mem' = [mem EXCEPT ![w] = m]
    /\ UNCHANGED <<uncaught, cand, trk, locks>>

\* delivery of a dispatch; line 48 reads the candidate, lines 50-51 use it
Begin(w, id) ==
    /\ pc[w] = "idle"
    /\ queue[id] > 0
    /\ queue' = [queue EXCEPT ![id] = @ - 1]
    /\ IF id \in Ids
       THEN /\ pc' = [pc EXCEPT ![w] = "check"]
            /\ cand' = [cand EXCEPT ![w] = id]
            /\ UNCHANGED <<uncaught, trk, mem, locks>>
       ELSE Raise(w, "AttributeError")   \* .first() is None, line 50
    /\ UNCHANGED <<tasks, workspace, now, saveKw, page, sent>>

\* mutant: the running check is left out
CheckRunningSkipped(w) ==
    /\ pc[w] = "check"
    /\ Goto(w, "select", mem[w])
    /\ UNCHANGED <<tasks, queue, workspace, now, saveKw, page, sent>>

\* mutant: the dispatch is submitted for the running sibling
CheckRunningRequeuesRunning(w) ==
    /\ pc[w] = "check"
    /\ IF RunningSiblings(cand[w]) # {}
       THEN /\ \E r \in RunningSiblings(cand[w]) :
                  /\ ~LockedByOther(w, r)
                  /\ queue[r] < MaxDispatch
                  /\ queue' = Enqueued(queue, {r})
            /\ Return(w)
       ELSE /\ Goto(w, "select", mem[w])
            /\ UNCHANGED queue
    /\ UNCHANGED <<tasks, workspace, now, saveKw, page, sent>>

\* lines 55-63: is a sibling running?  If so re-dispatch and return
CheckRunning(w) ==
    /\ pc[w] = "check"
    /\ IF RunningSiblings(cand[w]) # {}
       THEN /\ \E r \in RunningSiblings(cand[w]) : ~LockedByOther(w, r)
            /\ queue[cand[w]] < MaxDispatch
            /\ queue' = Enqueued(queue, {cand[w]})
            /\ Return(w)
       ELSE /\ Goto(w, "select", mem[w])
            /\ UNCHANGED queue
    /\ UNCHANGED <<tasks, workspace, now, saveKw, page, sent>>

\* lines 65-73: the newest queued sibling, locked by the query
SelectQueued(w) ==
    /\ pc[w] = "select"
    /\ IF QueuedSiblings(cand[w]) = {}
       THEN Return(w)
       ELSE \E j \in FirstQueued(cand[w]) :
                /\ ~LockedByOther(w, j)
                /\ locks' = [locks EXCEPT ![w] = {j}]
                /\ trk' = [trk EXCEPT ![w] = j]
                /\ mem' = [mem EXCEPT ![w] = tasks[j]]
                /\ pc' = [pc EXCEPT ![w] = "mark"]
                /\ UNCHANGED <<uncaught, cand>>
    /\ UNCHANGED <<tasks, queue, workspace, now, saveKw, page, sent>>

\* mutant: the start time is not stamped
StartedUnstamped(row, t) ==
    [row EXCEPT !.status = "running", !.forest_version = ForestVersion]

\* lines 75-78
Started(row, t) ==
    [row EXCEPT !.status = "running", !.forest_version = ForestVersion,
                !.process_start_time = t]

\* save(update_fields=fs) of object m: the row with those columns replaced
SavedFields(row, m, fs) ==
    [f \in DOMAIN row |-> IF f \in fs THEN m[f] ELSE row[f]]

\* mutant: the transaction stays open after the row is saved
MarkRunningKeepsLock(w) ==
    /\ pc[w] = "mark"
    /\ LET m == Started(mem[w], now)
       IN /\ tasks' = [tasks EXCEPT ![trk[w]] = SavedFields(@, m,
                           {"status", "forest_version", "process_start_time"})]
          /\ pc' = [pc EXCEPT ![w] = "size"]
          /\ mem' = [mem EXCEPT ![w] = m]
    /\ UNCHANGED <<queue, cand, trk, locks, uncaught, workspace, now, saveKw,
                   page, sent>>

\* lines 75-79 and the commit that ends the atomic block
MarkRunning(w) ==
    /\ pc[w] = "mark"
    /\ LET m == Started(mem[w], now)
       IN /\ tasks' = [tasks EXCEPT ![trk[w]] = SavedFields(@, m,
                           {"status", "forest_version", "process_start_time"})]
          /\ pc' = [pc EXCEPT ![w] = "size"]
          /\ mem' = [mem EXCEPT ![w] = m]
    /\ locks' = [locks EXCEPT ![w] = {}]
    /\ UNCHANGED <<queue, cand, trk, uncaught, workspace, now, saveKw, page, sent>>

\* lines 81-84, outside the try block
SizeStep(w) ==
    /\ pc[w] = "size"
    /\ \E ok \in BOOLEAN :
          IF ok
          THEN LET m == [mem[w] EXCEPT !.total_file_size =
                                          FileSizeSum(mem[w].participant)]
               IN /\ tasks' = [tasks EXCEPT ![trk[w]] =
                                  SavedFields(@, m, {"total_file_size"})]
                  /\ Goto(w, "try", m)
          ELSE Raise(w, "Exception") /\ UNCHANGED tasks
    /\ UNCHANGED <<queue, workspace, now, saveKw, page, sent>>

(***************************************************************************)
(* The try block, lines 86-96.  Its steps touch only the worker's own      *)
(* tracker object, its row's columns other than status, and its private    *)
(* scratch directory, so they are run to the end of the block in one       *)
(* action.  A step maps the local state                                    *)
(*   [at: next step, mem: tracker object, row: its row, ws: scratch files  *)
(*    exist, bv/md: artifact files on disk, t: clock reading]              *)
(* to the set of states it can leave; at = "final" ends the block.         *)
(***************************************************************************)
\* lines 98-100: the except clause
Failed(m, exc) ==
    [m EXCEPT !.status = "error", !.stacktrace = Traceback(exc)]

Caught(st, exc) == [st EXCEPT !.at = "final", !.mem = Failed(st.mem, exc)]

\* lines 101-102: the else clause
Succeeded(m) == [m EXCEPT !.status = "success"]

\* tracker.save(update_field=[...]): Django's Model.save has no such keyword
KwSaveRaises == saveKw = "rejected"

\* lines 89 and 93: tracker.save(update_field=fs), then step `next`
SaveUpdateField(st, fs, next) ==
    IF KwSaveRaises
    THEN Caught(st, "TypeError")
    ELSE [st EXCEPT !.at = next, !.row = SavedFields(st.row, st.mem, fs)]

\* line 87, create_local_data_files (lines 109-118)
DownloadStep(st) ==
    IF ChunkSizes(st.mem.participant) = <<>>
    THEN {[st EXCEPT !.at = "stamp"]}
    ELSE {[st EXCEPT !.at = "stamp", !.ws = TRUE]}
         \cup {[Caught(st, "Exception") EXCEPT !.ws = partial] :
                   partial \in BOOLEAN}

\* lines 88-89
StampStep(st) ==
    {SaveUpdateField([st EXCEPT !.mem.process_download_end_time = st.t],
                     {"process_download_end_time"}, "params")}

\* lines 91-93
ParamsStep(st) ==
    {Caught(st, "Exception"),
     SaveUpdateField([st EXCEPT !.mem.params_dict_cache = TRUE],
                     {"params_dict_cache"}, "tree")}

\* line 94: the analysis function; it may leave artifact files on disk
TreeStep(st) ==
    {[Caught(st, "Exception") EXCEPT !.ws = TRUE]}
    \cup {[st EXCEPT !.at = "summary", !.ws = TRUE, !.bv = b, !.md = m] :
              b \in BOOLEAN, m \in BOOLEAN}

\* line 95
SummaryStep(st) == {Caught(st, "Exception"), [st EXCEPT !.at = "cache_bv"]}

\* tracker.save_all_bv_set_bytes / save_all_memory_dict_bytes: the artifact
\* is stored and the row's reference to it saved
Persisted(st, artifact) ==
    [st EXCEPT !.mem[artifact] = TRUE, !.row[artifact] = TRUE]

\* save_cached_files, lines 134-136
CacheBvStep(st) ==
    IF ~st.bv
    THEN {[st EXCEPT !.at = "cache_md"]}
    ELSE {Caught(st, "Exception"),
          [Persisted(st, "all_bv_set") EXCEPT !.at = "cache_md"]}

\* save_cached_files, lines 137-139
CacheMdStep(st) ==
    IF ~st.md
    THEN {[st EXCEPT !.at = "else"]}
    ELSE {Caught(st, "Exception"),
          [Persisted(st, "all_memory_dict") EXCEPT !.at = "else"]}

ElseStep(st) == {[st EXCEPT !.at = "final", !.mem = Succeeded(st.mem)]}

TryStep(st) ==
    CASE st.at = "download" -> DownloadStep(st)
      [] st.at = "stamp" -> StampStep(st)
      [] st.at = "params" -> ParamsStep(st)
      [] st.at = "tree" -> TreeStep(st)
      [] st.at = "summary" -> SummaryStep(st)
      [] st.at = "cache_bv" -> CacheBvStep(st)
      [] st.at = "cache_md" -> CacheMdStep(st)
      [] st.at = "else" -> ElseStep(st)

RECURSIVE TryBlock(_)
TryBlock(st) ==
    IF st.at = "final" THEN {st} ELSE UNION {TryBlock(n) : n \in TryStep(st)}

\* lines 86-102
Try(w) ==
    /\ pc[w] = "try"
    /\ \E st \in TryBlock([at |-> "download", mem |-> mem[w],
                           row |-> tasks[trk[w]], ws |-> workspace[trk[w]],
                           bv |-> FALSE, md |-> FALSE, t |-> now]) :
          /\ tasks' = [tasks EXCEPT ![trk[w]] = st.row]
          /\ workspace' = [workspace EXCEPT ![trk[w]] = st.ws]
          /\ Goto(w, "final", st.mem)
    /\ UNCHANGED <<queue, now, saveKw, page, sent>>

\* mutant: the final stamp also overwrites the start time
FinishedRestamped(m, t) ==
    [m EXCEPT !.process_end_time = t, !.process_start_time = t]

\* line 103
Finished(m, t) == [m EXCEPT !.process_end_time = t]

\* lines 103-104: the final save writes every column of the object
FinalSave(w) ==
    /\ pc[w] = "final"
    /\ \E ok \in BOOLEAN :
          IF ok
          THEN /\ tasks' = [tasks EXCEPT ![trk[w]] = Finished(mem[w], now)]
               /\ Goto(w, "cleanup", Finished(mem[w], now))
          ELSE Raise(w, "Exception") /\ UNCHANGED tasks
    /\ UNCHANGED <<queue, workspace, now, saveKw, page, sent>>

\* line 106: tracker.clean_up_files()
Cleanup(w) ==
    /\ pc[w] = "cleanup"
    /\ workspace' = [workspace EXCEPT ![trk[w]] = FALSE]
    /\ Return(w)
    /\ UNCHANGED <<tasks, queue, now, saveKw, page, sent>>

\* timezone.now() advances
Tick ==
    /\ now < MaxTime
    /\ now' = now + 1
    /\ UNCHANGED <<tasks, queue, pc, cand, trk, mem, locks, uncaught,
                   workspace, saveKw, page, sent>>

Worker(w) ==
    \/ \E id \in 1..PhantomId : Begin(w, id)
    \/ CheckRunning(w)
    \/ SelectQueued(w)
    \/ MarkRunning(w)
    \/ SizeStep(w)
    \/ Try(w)
    \/ FinalSave(w)
    \/ Cleanup(w)

CreateRequest ==
    \E f \in CreateForms : CreateTasks(f.users, f.trees, f.ds, f.de)

CancelRequest ==
    \E eid \in ExternalIds, actor \in Researchers : Cancel(eid, actor)

Dispatch ==
    \/ Scan
    \/ \E id \in 1..PhantomId : Expire(id)

Next ==
    \/ CreateRequest
    \/ CancelRequest
    \/ Dispatch
    \/ \E w \in Workers : Worker(w)

\* two workers, tasks created by requests, the clock held at one instant
Spec == Init /\ [][Next]_vars

NextNewest ==
    \/ CancelRequest
    \/ Dispatch
    \/ Worker("w1")

\* one worker on a group of three queued tasks
SpecNewest == InitNewest /\ [][NextNewest]_vars

\* the create requests with start date 1
CreateRequestFirstDate ==
    \E f \in {g \in CreateForms : g.ds = 1} :
        CreateTasks(f.users, f.trees, f.ds, f.de)

NextClock ==
    \/ CreateRequestFirstDate
    \/ CancelRequest
    \/ Dispatch
    \/ Worker("w1")
    \/ Tick

\* one worker, tasks created by requests, the clock advancing
SpecClock == Init /\ [][NextClock]_vars

\* a dispatch is in the broker for a row that has since been deleted
InitPhantom ==
    /\ tasks = <<>>
    /\ queue = [i \in 1..PhantomId |-> IF i = PhantomId THEN 1 ELSE 0]
    /\ pc = [w \in Workers |-> "idle"]
    /\ cand = [w \in Workers |-> NoTask]
    /\ trk = [w \in Workers |-> NoTask]
    /\ mem = [w \in Workers |-> BlankRow]
    /\ locks = [w \in Workers |-> {}]
    /\ uncaught = {}
    /\ workspace = [i \in TaskIds |-> FALSE]
    /\ now = 0
    /\ saveKw \in {"rejected", "accepted"}
    /\ page = NoPage
    /\ sent = {}

NextPhantom ==
    \/ CreateRequest
    \/ CancelRequest
    \/ Dispatch
    \/ Worker("w1")

\* one worker, tasks created by requests, and the dispatch of a deleted row
SpecPhantom == InitPhantom /\ [][NextPhantom]_vars

\* two queued tasks of one participant and tree
InitLive ==
    InitWith(<<NewRow("p1", "jasmine", 1, 1, 0), NewRow("p1", "jasmine", 2, 2, 0)>>)

NextLive ==
    \/ Scan
    \/ \E w \in Workers : Worker(w)

\* cron runs the scan again and again, the broker delivers every dispatch
\* before it expires, and a worker that can take a step takes it
SpecLive ==
    /\ InitLive /\ [][NextLive]_vars
    /\ WF_vars(Scan)
    /\ \A w \in Workers : WF_vars(Worker(w))
    /\ \A id \in TaskIds : WF_vars(\E w \in Workers : Begin(w, id))

\* the worker process is killed between the commit of line 79 and the
\* final save of line 104: its call ends there and nothing is written
Kill(w) ==
    /\ pc[w] \in {"size", "try", "final"}
    /\ Return(w)
    /\ UNCHANGED <<tasks, queue, workspace, now, saveKw, page, sent>>

NextCrash ==
    \/ CancelRequest
    \/ Dispatch
    \/ \E w \in Workers : Worker(w)
    \/ \E w \in Workers : Kill(w)

\* two queued tasks of one pair, and workers that can be killed mid-run
SpecCrash == InitLive /\ [][NextCrash]_vars

\* ------------------------------------------------------------ properties
\* a worker is between marking row i running and the end of its call
Active(i) ==
    \E w \in Workers : trk[w] = i /\ pc[w] \in {"size", "try", "final", "cleanup"}

SamePair(i, j) ==
    /\ tasks[i].participant = tasks[j].participant
    /\ tasks[i].forest_tree = tasks[j].forest_tree

\* C1: at most one task of a (participant, forest_tree) pair is running
C1_AtMostOneRunning ==
    \A i \in Ids, j \in Ids :
        (/\ tasks[i].status = "running" /\ tasks[j].status = "running"
         /\ SamePair(i, j)) => i = j

AllowedTransitions ==
    {<<"queued", "running">>, <<"running", "success">>,
     <<"running", "error">>, <<"queued", "cancelled">>}

\* C3: a stored status changes only along queued -> running,
\* running -> success, running -> error, queued -> cancelled
C3_StatusTransitions ==
    [][\A i \in Ids :
          tasks'[i].status # tasks[i].status =>
             <<tasks[i].status, tasks'[i].status>> \in AllowedTransitions]_vars

\* C3 witness: one task ran to success and another was cancelled
C3_TerminalStatesReached ==
    \E i \in Ids, j \in Ids :
        /\ tasks[i].status = "success" /\ tasks[i].process_end_time # NULL
        /\ tasks[j].status = "cancelled"

TargetQueued(eid) ==
    \E i \in Ids : ExternalId(i) = eid /\ tasks[i].status = "queued"

\* C4: a cancel request reports success exactly when its task is queued;
\* it then turns that row to cancelled with the note (actor, date) and
\* changes nothing else; otherwise it changes no row at all
C4_CancelOnlyQueued ==
    /\ [](\A eid \in ExternalIds : CancelReportsSuccess(eid) <=> TargetQueued(eid))
    /\ [][\A eid \in ExternalIds, actor \in Researchers :
             Cancel(eid, actor) =>
                \A i \in Ids :
                   tasks'[i] =
                      IF ExternalId(i) = eid /\ tasks[i].status = "queued"
                      THEN [tasks[i] EXCEPT
                              !.status = "cancelled",
                              !.stacktrace = <<"Canceled by", actor, now>>]
                      ELSE tasks[i]]_vars

\* C4 witness: a cancelled task and a started task, both of which a cancel
\* request now refuses
C4_CancelRefused ==
    \E i \in Ids, j \in Ids :
        /\ tasks[i].status = "cancelled"
        /\ tasks[i].stacktrace = <<"Canceled by", "admin", now>>
        /\ ~CancelReportsSuccess(ExternalId(i))
        /\ tasks[j].status \in {"running", "success", "error"}
        /\ ~CancelReportsSuccess(ExternalId(j))

\* C5: a failure in the size computation or in the try block is caught:
\* the worker always goes on to the final save
C5_PipelineFailureCaught ==
    [][\A w \in Workers :
          (pc[w] \in {"size", "try"} /\ pc'[w] # pc[w]) =>
             pc'[w] \in {"try", "final"}]_vars

C7_FailureFreeRunSucceeds ==
    \A i \in Ids :
        (/\ tasks[i].status \in {"success", "error"}
         /\ tasks[i].stacktrace # Traceback("Exception"))
        => tasks[i].status = "success"

Stamps(row) ==
    <<row.created_on, row.process_start_time,
      row.process_download_end_time, row.process_end_time>>

\* C8: created_on never changes, each process time is written at most once,
\* and the times that are set are in the order created <= start <=
\* download end <= end
C8_TimestampsOnceAndOrdered ==
    [][\A i \in Ids :
          /\ tasks'[i].created_on = tasks[i].created_on
          /\ \A n \in 2..4 :
                Stamps(tasks[i])[n] # NULL =>
                   Stamps(tasks'[i])[n] = Stamps(tasks[i])[n]
          /\ \A a \in 1..4, b \in 1..4 :
                (a < b /\ Stamps(tasks'[i])[a] # NULL
                       /\ Stamps(tasks'[i])[b] # NULL)
                => Stamps(tasks'[i])[a] <= Stamps(tasks'[i])[b]]_vars

\* C8 witness: a finished task whose times were stamped at different instants
C8_StampedInOrder ==
    \E i \in Ids :
        /\ tasks[i].created_on < tasks[i].process_start_time
        /\ tasks[i].process_start_time <= tasks[i].process_download_end_time
        /\ tasks[i].process_download_end_time < tasks[i].process_end_time

C10_WorkspaceReleased ==
    \A i \in Ids :
        (tasks[i].process_start_time # NULL /\ ~Active(i)) => ~workspace[i]

\* a step of worker w's call of celery_run_forest
HandlerStep(w) == pc[w] # "idle" /\ pc'[w] # pc[w]

\* a handler whose candidate is running when it checks the pair returns
\* there, with one new dispatch of the candidate and no row changed
RunningCandidateDeferred(w) ==
    (/\ pc[w] = "check" /\ pc'[w] # "check"
     /\ tasks[cand[w]].status = "running")
    => /\ pc'[w] = "idle"
       /\ tasks' = tasks
       /\ queue' = Enqueued(queue, {cand[w]})

ScanStep == pc' = pc /\ \E i \in DOMAIN queue : queue'[i] > queue[i]

\* C12: a scan submits exactly one dispatch for every task that is queued,
\* none for any other task id, and changes no row
C12_ScanDispatchesQueuedOnce ==
    [][ScanStep =>
          /\ tasks' = tasks
          /\ \A i \in DOMAIN queue :
                queue'[i] = queue[i] +
                   (IF i \in Ids /\ tasks[i].status = "queued" THEN 1 ELSE 0)]_vars

\* C12 witness: after a scan a queued task has its dispatch while a task
\* that has run or was cancelled has none
C12_ScannedQueuedOnly ==
    \E i \in Ids, j \in Ids :
        /\ tasks[i].status = "queued" /\ queue[i] = 1
        /\ tasks[j].status \in {"success", "error", "cancelled"}
        /\ queue[j] = 0
        /\ \A w \in Workers : pc[w] = "idle"

\* C13: the delivery of a task id that has no row ends silently: no
\* exception leaves the handler, no row changes, no dispatch is submitted
C13_MissingRowSilent ==
    [][\A w \in Workers, id \in DOMAIN queue :
          (id \notin Ids /\ Begin(w, id)) =>
             /\ uncaught' = uncaught
             /\ tasks' = tasks
             /\ \A i \in DOMAIN queue : queue'[i] <= queue[i]]_vars

\* the rows whose date range contains the date of cell c
Covering(c) ==
    {i \in Ids : /\ tasks[i].participant = c[1]
                 /\ tasks[i].forest_tree = c[2]
                 /\ tasks[i].data_date_start <= c[3]
                 /\ c[3] <= tasks[i].data_date_end}

\* C14: a cell of the chart holds the status of a most recently created
\* task of its participant and tree that covers its date, and "--" when no
\* task covers it; one successful task on the dates 2..6 shows success on
\* exactly those five dates
C14_GridShowsLatestCovering ==
    page.rendered =>
       /\ \A c \in Participants \X Trees \X GridDates :
             IF Covering(c) = {}
             THEN page.chart[c] = "--"
             ELSE \E i \in Covering(c) :
                     /\ page.chart[c] = tasks[i].status
                     /\ \A j \in Covering(c) :
                           tasks[j].created_on <= tasks[i].created_on
       /\ (/\ Len(tasks) = 1 /\ tasks[1].status = "success"
           /\ tasks[1].data_date_start = 2 /\ tasks[1].data_date_end = 6)
          => \A c \in Participants \X Trees \X GridDates :
                page.chart[c] =
                   IF /\ c[1] = tasks[1].participant
                      /\ c[2] = tasks[1].forest_tree
                      /\ c[3] \in {2, 3, 4, 5, 6}
                   THEN "success" ELSE "--"

\* C14 witness: a page on which a later task has replaced the status of an
\* earlier one on the date they share, and not on the other dates
C14_LaterTaskShown ==
    /\ page.rendered /\ Len(tasks) = 2
    /\ tasks[1].created_on < tasks[2].created_on
    /\ tasks[1].status = "success" /\ tasks[2].status = "error"
    /\ page.chart[<<"p1", "jasmine", 5>>] = "success"
    /\ page.chart[<<"p1", "jasmine", 6>>] = "error"
    /\ page.chart[<<"p1", "jasmine", 1>>] = "--"
    /\ page.chart[<<"p2", "jasmine", 5>>] = "--"

\* position of row i in the order the page read the rows in
Pos(i) == CHOOSE a \in DOMAIN page.order : page.order[a] = i

\* the covering row of cell c that the page read last
Latest(c) ==
    CHOOSE i \in Covering(c) : \A j \in Covering(c) : Pos(j) <= Pos(i)

\* the cells (participant, tree, date) of tree tr that some task covers
CoveredCells(tr) ==
    {c \in Participants \X {tr} \X
              (UNION {DateRange(tasks[i].data_date_start,
                                tasks[i].data_date_end) : i \in Ids}) :
        Covering(c) # {}}

\* the metadata ids referenced by the cells of tree tr: those of the cells
\* whose latest covering task is successful
ReferencedMetadata(tr) ==
    {tasks[Latest(c)].metadata_id :
        c \in {x \in CoveredCells(tr) :
                  /\ tasks[Latest(x)].status = "success"
                  /\ tasks[Latest(x)].metadata_id # NULL}}

\* C15: metadata_conflict is true exactly when the cells of some one tree
\* whose latest covering task is successful reference more than one
\* non-null metadata id
C15_ConflictWithinTree ==
    page.rendered =>
       (page.metadata_conflict <=>
           \E tr \in Trees : Cardinality(ReferencedMetadata(tr)) > 1)

\* C15 witness: two successful tasks with different metadata: a conflict
\* when they are of one tree
C15_ConflictReported ==
    /\ page.rendered /\ page.metadata_conflict /\ Len(tasks) = 2
    /\ tasks[1].forest_tree = tasks[2].forest_tree
    /\ tasks[1].participant # tasks[2].participant
    /\ tasks[1].status = "success" /\ tasks[2].status = "success"
    /\ tasks[1].metadata_id = 1 /\ tasks[2].metadata_id = 2

\* C16: every dispatch published carries no retry and an expiry later than
\* its submission by 4 min 30 s to 5 min 30 s, and a scan and a re-dispatch
\* at one instant carry the same options
C16_ExpiryWindow ==
    /\ \A m \in sent :
          /\ m.options.max_retries = 0
          /\ ~m.options.retry
          /\ m.options.expires > m.at
          /\ m.options.expires - m.at >= (4 * 60 + 30) * TicksPerSecond
          /\ m.options.expires - m.at <= (5 * 60 + 30) * TicksPerSecond
    /\ \A m1, m2 \in sent :
          /\ m1.options.expires = m2.options.expires
          /\ m1.options.max_retries = m2.options.max_retries
          /\ m1.options.retry = m2.options.retry

\* C16 witness: a scan and a re-dispatch published in the last tick of a
\* minute, 4 min 30 s and one tick before they expire
C16_LastTickOfMinute ==
    /\ Cardinality(sent) = 2
    /\ \A m \in sent :
          /\ m.at = MinuteTicks - 1
          /\ m.options.expires - m.at = (4 * 60 + 30) * TicksPerSecond + 1

\* C17: a handler that finds a task of its candidate's pair running
\* submits one dispatch of the candidate, returns, and changes no row
C17_DeferralFrame ==
    [][\A w \in Workers :
          (/\ pc[w] = "check" /\ pc'[w] # "check"
           /\ \E k \in Ids : SamePair(k, cand[w]) /\ tasks[k].status = "running")
          => /\ pc'[w] = "idle"
             /\ locks'[w] = {}
             /\ tasks' = tasks
             /\ \A i \in DOMAIN queue :
                   queue'[i] = queue[i] + (IF i = cand[w] THEN 1 ELSE 0)]_vars

\* C17 witness: a queued task has its dispatch back while a sibling is in
\* the pipeline of one worker and the other worker is idle
C17_CandidateDeferred ==
    \E i \in Ids, j \in Ids, w \in Workers, v \in Workers :
        /\ i # j /\ SamePair(i, j)
        /\ tasks[i].status = "queued" /\ queue[i] = 1 /\ queue[j] = 0
        /\ tasks[j].status = "running" /\ trk[w] = j /\ pc[w] = "try"
        /\ pc[v] = "idle"

\* C18: with dispatches delivered and workers scheduled fairly, a queued
\* task (none is cancelled here) is eventually running and then ends in
\* success or error
C18_QueuedEventuallyEnds ==
    \A i \in 1..2 :
        /\ (tasks[i].status = "queued") ~> (tasks[i].status = "running")
        /\ (tasks[i].status = "running")
              ~> (tasks[i].status \in {"success", "error"})

\* the positions after the atomic block: size computation, download,
\* analysis, summaries, artifacts, final save, clean-up
AfterAtomic == {"size", "try", "final", "cleanup"}

\* C19: a worker past the atomic block holds no row lock, so the running
\* row of a worker in the pipeline is not locked, and a handler that
\* checks the same pair meanwhile is not made to wait: it defers
C19_LockOnlyInAtomicBlock ==
    /\ [](\A w \in Workers :
            pc[w] \in AfterAtomic =>
               /\ locks[w] = {}
               /\ \A v \in Workers : trk[w] \notin locks[v])
    /\ [][\A w \in Workers, v \in Workers :
             (/\ pc[w] \in AfterAtomic /\ tasks[trk[w]].status = "running"
              /\ pc[v] = "check" /\ SamePair(cand[v], trk[w])
              /\ pc'[v] # "check")
             => pc'[v] = "idle" /\ queue'[cand[v]] = queue[cand[v]] + 1]_vars

\* C19 witness: one worker is in the pipeline of a running task while the
\* other has been delivered a dispatch of a sibling and is at the check
C19_CheckDuringPipeline ==
    \E w \in Workers, v \in Workers :
        /\ pc[w] = "try" /\ tasks[trk[w]].status = "running"
        /\ pc[v] = "check" /\ cand[v] # trk[w] /\ SamePair(cand[v], trk[w])
        /\ \A u \in Workers : locks[u] = {}

\* no task of the pair of row i is running
PairIdle(i) ==
    \A k \in Ids : SamePair(k, i) => tasks[k].status # "running"

\* no other worker holds a lock on a row of the pair of row i
PairUnlocked(v, i) ==
    \A u \in Workers \ {v} : \A j \in locks[u] : ~SamePair(j, i)

\* C20: a handler whose candidate's pair has no running task is never
\* deferred, and it waits for no lock unless a row of its own pair is
\* locked, whatever runs or is locked in other pairs; tasks of different
\* pairs run at the same time
C20_ExclusionPerPair ==
    /\ [](\A v \in Workers :
            /\ (pc[v] = "check" /\ PairIdle(cand[v]))
                  => ENABLED CheckRunning(v)
            /\ (pc[v] = "select" /\ PairUnlocked(v, cand[v]))
                  => ENABLED SelectQueued(v))
    /\ [][\A v \in Workers :
             (pc[v] = "check" /\ pc'[v] # "check" /\ PairIdle(cand[v]))
             => pc'[v] = "select" /\ queue' = queue]_vars

\* C20 witness: two tasks of one participant and different trees are in
\* the pipelines of the two workers at once
C20_TwoPairsRunning ==
    \E i \in Ids, j \in Ids :
        /\ tasks[i].participant = tasks[j].participant
        /\ tasks[i].forest_tree # tasks[j].forest_tree
        /\ tasks[i].status = "running" /\ tasks[j].status = "running"
        /\ trk["w1"] = i /\ pc["w1"] = "try"
        /\ trk["w2"] = j /\ pc["w2"] = "try"

\* row i is running and no worker is running it
Orphan(i) == tasks[i].status = "running" /\ ~Active(i)

\* no handler that passed the running check before is about to admit a
\* task of the pair of row i
NoAdmissionInFlight(i) ==
    \A w \in Workers : pc[w] \in {"select", "mark"} => ~SamePair(cand[w], i)

Stuck(i) == Orphan(i) /\ NoAdmissionInFlight(i)

\* C21: a task left running by a killed worker stays as it is whatever
\* the scan, the handlers and cancel requests do; every handler of its
\* pair is deferred with a re-dispatch and no queued sibling is admitted
C21_CrashLeavesRunning ==
    [][\A i \in Ids :
          Stuck(i) =>
             /\ tasks'[i] = tasks[i]
             /\ Stuck(i)'
             /\ \A j \in Ids :
                   (SamePair(j, i) /\ tasks[j].status = "queued")
                   => tasks'[j].status \in {"queued", "cancelled"}
             /\ \A w \in Workers :
                   (/\ pc[w] = "check" /\ pc'[w] # "check"
                    /\ SamePair(cand[w], i))
                   => /\ pc'[w] = "idle"
                      /\ queue'[cand[w]] = queue[cand[w]] + 1]_vars

\* C21 witness: a worker was killed (no exception was raised) and its task
\* is still running; a dispatch of the queued sibling was handled and the
\* sibling has its dispatch again
C21_SiblingDeferredAfterKill ==
    \E i \in Ids, j \in Ids :
        /\ uncaught = {} /\ Orphan(i)
        /\ tasks[i].total_file_size # NULL
        /\ SamePair(j, i) /\ tasks[j].status = "queued" /\ queue[j] = 1
        /\ queue[i] = 0
        /\ \A w \in Workers : pc[w] = "idle"

\* the workers that hold row i as the task they admit or run
Runners(i) ==
    {w \in Workers : trk[w] = i /\ pc[w] \in {"mark"} \cup AfterAtomic}

\* C22: a task becomes running only from queued and only if it never ran
\* before, by the step of one worker, and no two workers ever hold the
\* same task in the pipeline, however many of its dispatches are handled
C22_ExecutedAtMostOnce ==
    /\ [](\A i \in Ids : Cardinality(Runners(i)) <= 1)
    /\ [][\A i \in Ids :
             (tasks[i].status # "running" /\ tasks'[i].status = "running")
             => /\ tasks[i].status = "queued"
                /\ tasks[i].process_start_time = NULL
                /\ Cardinality({w \in Workers :
                                   trk[w] = i /\ pc[w] = "mark"
                                   /\ pc'[w] = "size"}) = 1]_vars

\* C22 witness: two dispatches of one task id were delivered to the two
\* workers; one runs the task, the other is still at its check
C22_DuplicateDispatchHandled ==
    \E i \in Ids, w \in Workers, v \in Workers :
        /\ w # v /\ cand[w] = i /\ cand[v] = i
        /\ trk[w] = i /\ pc[w] = "try" /\ tasks[i].status = "running"
        /\ pc[v] = "check"

\* the stacktrace of the row was written by the except clause
HasTraceback(row) == row.stacktrace # <<>> /\ row.stacktrace[1] = "Traceback"

\* C23: the lifecycle fields agree with the status: no start and no end
\* time while queued or cancelled; start time and version and no end time
\* while running; start and end time once success or error; a traceback
\* only with error
C23_FieldsAgreeWithStatus ==
    \A i \in Ids :
        LET row == tasks[i]
        IN /\ row.status \in {"queued", "cancelled"} =>
                 /\ row.process_start_time = NULL
                 /\ row.process_end_time = NULL
           /\ row.status = "running" =>
                 /\ row.process_start_time # NULL
                 /\ row.forest_version = ForestVersion
                 /\ row.process_end_time = NULL
           /\ row.status \in {"success", "error"} =>
                 /\ row.process_start_time # NULL
                 /\ row.process_end_time # NULL
           /\ HasTraceback(row) => row.status = "error"

\* C23 witness: a task that failed, with its traceback and both times,
\* beside a sibling that is running
C23_ErrorBesideRunning ==
    \E i \in Ids, j \in Ids :
        /\ tasks[i].status = "error" /\ HasTraceback(tasks[i])
        /\ tasks[i].process_end_time # NULL
        /\ tasks[j].status = "running" /\ tasks[j].process_end_time = NULL
        /\ tasks[j].forest_version = ForestVersion

====
